---- MODULE Spec2Model ----
(***************************************************************************)
(* Model of the Graylog provider                                           *)
(* (keep/providers/graylog_provider/graylog_provider.py).                  *)
(*                                                                         *)
(* The state machines share this module, each with its own specification:  *)
(*   SpecSetup  - setup_webhook run repeatedly against one Graylog backend,*)
(*                one action per HTTP call, each call able to fail;        *)
(*   SpecHost   - the memoized graylog_host property;                      *)
(*   SpecAlerts - _get_alerts, the paged alert search;                     *)
(*   SpecMap    - __map_event_to_alert applied to two raw events;          *)
(*   SpecQuery  - _query and search;                                       *)
(*   SpecHostRace  - graylog_host accessed from two execution contexts;    *)
(*   SpecSetupRace - setup_webhook run from two execution contexts with    *)
(*                different callback URLs;                                 *)
(*   SpecTermination - one invocation of setup_webhook or of _get_alerts   *)
(*                under fairness of the pending request;                   *)
(*   SpecInit   - the constructor and __get_graylog_version;               *)
(*   SpecScopes - validate_scopes.                                         *)
(* The variables of the machines a specification does not run stay at      *)
(* their initial values.                                                   *)
(***************************************************************************)
EXTENDS Integers, Sequences, FiniteSets, TLC

VARIABLES
    \* ---- the Graylog backend (remote state) ----
    is_v4,                    \* self.is_v4
    r_notifications,          \* set of notification records of the backend
    r_next_id,                \* next notification id the backend hands out
    r_whitelist,              \* the backend's URL whitelist entries, in order
    r_definitions,            \* the backend's event definitions, in order
    r_cascade,                \* does the backend drop references on delete
    \* ---- setup_webhook: position and locals of the current run ----
    pc,
    event_definitions,
    total_pages,
    page,
    url_whitelist,
    existing_notification_id,
    new_notification,
    def_index,
    requests,                 \* HTTP calls of the current run, in order
    outcomes,                 \* how each finished run ended, in order
    \* ---- graylog_host ----
    deployment_url,           \* authentication_config.deployment_url
    _host,                    \* self._host: <<>> for None, else <<string>>
    probes,                   \* HTTPS probe requests issued so far
    host_returns,             \* the values graylog_host returned, in order
    \* ---- _get_alerts ----
    alerts_pc,
    json_page,                \* json_data["page"]
    all_alerts,
    total_events,             \* the page count _get_alerts computes
    alert_requests,           \* page numbers of the requests issued, in order
    r_total_events,           \* total_events the backend reported on page 1
    r_served,                 \* the events the backend served, per request
    alerts_result,            \* <<>> until _get_alerts returns <<list>>
    \* ---- __map_event_to_alert ----
    raw_events,               \* the two raw events under comparison
    mapped,                   \* per event: <<>> until mapped, then <<result>>
    \* ---- graylog_host: the outcomes of the probes issued, in order ----
    probe_outcomes,
    \* ---- _query and search ----
    kwargs,                   \* keyword arguments of _query
    events_search_parameters, \* the parameter mapping of _query
    q_pc,
    search_args,              \* <<>> or <<the arguments search was called with>>
    q_requests,               \* the requests issued, in order
    q_result,                 \* <<>> until the call returns <<value>>
    \* ---- graylog_host accessed from two execution contexts ----
    h_pc,
    h_outcome,                \* per context: what its probe did
    h_return,                 \* per context: <<>> or <<value returned>>
    \* ---- setup_webhook run from two execution contexts ----
    c_pc,
    c_event_definitions,
    c_url_whitelist,
    c_existing_notification_id,
    c_new_notification,
    c_def_index,
    \* ---- what the backend answered, per request ----
    alert_statuses,           \* _get_alerts: did the request get a 200
    q_responses,              \* _query and search: the answers, in order
    \* ---- __init__ and __get_graylog_version ----
    v_pc,
    v_response,               \* what the version request does
    v_version,                \* <<>> for None, else <<the version string>>
    v_instance,               \* <<>> until constructed, then <<the instance>>
    \* ---- validate_scopes ----
    s_pc,
    s_response,               \* what the user lookup does
    s_result                  \* <<>> until it returns <<the dict>>

setupVars == <<is_v4, r_notifications, r_next_id, r_whitelist, r_definitions,
               r_cascade, pc, event_definitions, total_pages, page,
               url_whitelist, existing_notification_id, new_notification,
               def_index, requests, outcomes>>

hostVars == <<deployment_url, _host, probes, host_returns, probe_outcomes>>

alertVars == <<alerts_pc, json_page, all_alerts, total_events, alert_requests,
               r_total_events, r_served, alerts_result, alert_statuses>>

mapVars == <<raw_events, mapped>>

queryVars == <<kwargs, events_search_parameters, q_pc, search_args,
               q_requests, q_result, q_responses>>

hostRaceVars == <<h_pc, h_outcome, h_return>>

setupRaceVars == <<c_pc, c_event_definitions, c_url_whitelist,
                   c_existing_notification_id, c_new_notification, c_def_index>>

\* the machines added to the first four
initVars == <<v_pc, v_response, v_version, v_instance>>

scopeVars == <<s_pc, s_response, s_result>>

\* the machines added last
lateVars == <<initVars, scopeVars>>

extVars == <<queryVars, hostRaceVars, setupRaceVars, lateVars>>

vars == <<setupVars, hostVars, alertVars, mapVars, extVars>>

----------------------------------------------------------------------------
\* The state of a machine that a specification does not run

IdleSetup ==
    /\ is_v4 = FALSE
    /\ r_cascade = FALSE
    /\ r_notifications = {}
    /\ r_next_id = 1
    /\ r_whitelist = <<>>
    /\ r_definitions = <<>>
    /\ pc = "idle"
    /\ event_definitions = <<>>
    /\ total_pages = 0
    /\ page = 1
    /\ url_whitelist = <<>>
    /\ existing_notification_id = 0    \* None
    /\ new_notification = 0            \* not yet assigned
    /\ def_index = 1
    /\ requests = <<>>
    /\ outcomes = <<>>

IdleHost ==
    /\ deployment_url = [scheme |-> "http://", host |-> "localhost:9000",
                         slashes |-> 0]
    /\ _host = <<>>
    /\ probes = 0
    /\ host_returns = <<>>
    /\ probe_outcomes = <<>>

IdleAlerts ==
    /\ alerts_pc = "idle"
    /\ json_page = 1
    /\ all_alerts = <<>>
    /\ total_events = 0
    /\ alert_requests = <<>>
    /\ r_total_events = 0
    /\ r_served = <<>>
    /\ alerts_result = <<>>
    /\ alert_statuses = <<>>

IdleMap ==
    /\ raw_events = <<>>
    /\ mapped = <<>>

IdleQuery ==
    /\ kwargs = <<>>
    /\ events_search_parameters = <<>>
    /\ q_pc = "idle"
    /\ search_args = <<>>
    /\ q_requests = <<>>
    /\ q_result = <<>>
    /\ q_responses = <<>>

IdleHostRace ==
    /\ h_pc = <<>>
    /\ h_outcome = <<>>
    /\ h_return = <<>>

IdleSetupRace ==
    /\ c_pc = <<>>
    /\ c_event_definitions = <<>>
    /\ c_url_whitelist = <<>>
    /\ c_existing_notification_id = <<>>
    /\ c_new_notification = <<>>
    /\ c_def_index = <<>>

IdleInit ==
    /\ v_pc = "idle"
    /\ v_response = <<>>
    /\ v_version = <<>>
    /\ v_instance = <<>>

IdleScopes ==
    /\ s_pc = "idle"
    /\ s_response = <<>>
    /\ s_result = <<>>

IdleLate == IdleInit /\ IdleScopes

IdleExt == IdleQuery /\ IdleHostRace /\ IdleSetupRace /\ IdleLate

----------------------------------------------------------------------------
\* Bounds

MaxRuns == 3          \* setup_webhook runs per behaviour
MaxDefs == 5          \* event definitions of the backend
DefsPerPage == 2      \* page size of the definition listing (100 in the
                      \* source, scaled so that several pages fit MaxDefs)
MaxAccesses == 4      \* accesses of graylog_host per behaviour
MaxPriority == 4      \* raw event priorities range over -MaxPriority..MaxPriority
MaxEventId == 2       \* remote event ids and event definition ids of raw events

----------------------------------------------------------------------------
\* Helpers

NoId == 0             \* Python None for a notification id

CeilDiv(a, b) == (a + b - 1) \div b

Min(a, b) == IF a < b THEN a ELSE b

RECURSIVE RemoveFirst(_, _)

\* variant: the entry popped is the first of the list, whatever its id
RemoveFirst_DropsHead(s, x) == IF s = <<>> THEN <<>> ELSE Tail(s)

\* list.pop(ind) at the first index whose element equals x, then break
RemoveFirst(s, x) ==
    IF s = <<>> THEN <<>>
    ELSE IF Head(s) = x THEN Tail(s)
    ELSE <<Head(s)>> \o RemoveFirst(Tail(s), x)

RECURSIVE CountOf(_, _)
CountOf(s, x) ==
    IF s = <<>> THEN 0
    ELSE (IF Head(s) = x THEN 1 ELSE 0) + CountOf(Tail(s), x)

SeqRange(s) == {s[i] : i \in 1..Len(s)}

----------------------------------------------------------------------------
\* Arguments of setup_webhook

ApiKey == "key-1"

\* keep_api_url as the caller passes it: the webhook URL whose query string
\* ends in provider_id=<id>
CallbackUrl == [base |-> "https://keep/alerts/event/graylog",
                provider_id |-> "p1", api_key |-> ""]

\* urlparse(keep_api_url).query.split("provider_id=")[-1]
ProviderIdOf(url) == url.provider_id

NotificationName(url) == <<"Keep-", ProviderIdOf(url)>>

\* variant: the key is never appended
KeepApiUrl_NeverAppends(url, key, v4) == url

\* f"{keep_api_url}&api_key={api_key}" on v4, unchanged otherwise
KeepApiUrl(url, key, v4) == IF v4 THEN [url EXCEPT !.api_key = key] ELSE url

notification_name == NotificationName(CallbackUrl)
keep_api_url == KeepApiUrl(CallbackUrl, ApiKey, is_v4)

\* variant: the extended schema whatever the version
NotificationConfig_AlwaysV2(url, key, v4) ==
    [type |-> "http-notification-v2", basic_auth |-> "None",
     api_key_as_header |-> FALSE, api_key |-> "", api_secret |-> "None",
     url |-> url, skip_tls_verification |-> TRUE, method |-> "POST",
     time_zone |-> "UTC", content_type |-> "JSON",
     headers |-> <<"X-API-KEY:", key>>, body_template |-> ""]

\* the config of the notification body
NotificationConfig(url, key, v4) ==
    IF v4
    THEN [type |-> "http-notification-v1", url |-> url]
    ELSE [type |-> "http-notification-v2", basic_auth |-> "None",
          api_key_as_header |-> FALSE, api_key |-> "", api_secret |-> "None",
          url |-> url, skip_tls_verification |-> TRUE, method |-> "POST",
          time_zone |-> "UTC", content_type |-> "JSON",
          headers |-> <<"X-API-KEY:", key>>, body_template |-> ""]

\* variant: the config gets the callback URL as the caller passed it
NotificationBody_CallerUrl(name, url, key, v4) ==
    [title |-> name,
     description |-> "created by Keep",
     config |-> NotificationConfig([url EXCEPT !.api_key = ""], key, v4)]

\* notification_body, lines 628-632
NotificationBody(name, url, key, v4) ==
    [title |-> name,
     description |-> "created by Keep",
     config |-> NotificationConfig(url, key, v4)]

\* variant: the entry holds the callback URL without the key
WhitelistEntry_BareUrl(name, url) ==
    [title |-> name, value |-> [url EXCEPT !.api_key = ""], type |-> "literal"]

\* the entry lines 584-588 append to the whitelist
WhitelistEntry(name, url) == [title |-> name, value |-> url, type |-> "literal"]

----------------------------------------------------------------------------
\* The backend

ForeignNotification ==
    [id |-> 1, title |-> <<"ops-", "pager">>, description |-> "foreign",
     config |-> [type |-> "email-notification-v1"]]

ForeignWhitelistEntry ==
    [title |-> <<"ops-", "hook">>,
     value |-> [base |-> "https://ops/hook", provider_id |-> "", api_key |-> ""],
     type |-> "literal"]

\* GET /events/definitions?page&per_page
EventsResponse(defs, p, per_page) ==
    [event_definitions |->
        SubSeq(defs, (p - 1) * per_page + 1, Min(p * per_page, Len(defs))),
     total |-> Len(defs)]

\* GET /events/notifications?query=title:<name>&page=1&per_page=1
NotificationsWithTitle(ns, name) == {n \in ns : n.title = name}

\* DELETE /events/notifications/{id}: the notification goes; a backend that
\* cleans up also drops the references the definitions hold to it
RECURSIVE RemoveAll(_, _)
RemoveAll(s, x) ==
    IF s = <<>> THEN <<>>
    ELSE IF Head(s) = x THEN RemoveAll(Tail(s), x)
    ELSE <<Head(s)>> \o RemoveAll(Tail(s), x)

DefinitionsAfterDelete(defs, id, cascade) ==
    IF cascade
    THEN [i \in 1..Len(defs) |->
            [defs[i] EXCEPT !.notifications = RemoveAll(@, id)]]
    ELSE defs

\* variant: the backend answers the update without storing it
DefinitionsAfterUpdate_Ignored(defs, event) == defs

\* PUT /events/definitions/{id}: full-object replace
DefinitionsAfterUpdate(defs, event) ==
    [i \in 1..Len(defs) |-> IF defs[i].id = event.id THEN event ELSE defs[i]]

----------------------------------------------------------------------------
\* Decisions taken by setup_webhook

\* variant: two pages more than the total gives
TotalPages_TwoMore(total, per_page) == CeilDiv(total, per_page) + 2

\* total_pages = math.ceil(int(events_1["total"]) / 100)
TotalPages(total, per_page) == CeilDiv(total, per_page)

\* for page in range(2, total_pages): is p one of the pages of the loop
InPageRange(p, pages) == p >= 2 /\ p < pages

\* variant: the flag is assigned on every entry, so every entry must match
UrlFound_EveryEntry(whitelist, url) ==
    \A i \in 1..Len(whitelist) : whitelist[i].value = url

\* the for/break search of the whitelist for the callback URL
UrlFound(whitelist, url) == \E i \in 1..Len(whitelist) : whitelist[i].value = url

\* variant: an existing notification is only seen from the second one on
NotificationExists_MoreThanOne(count) == count > 1

\* if int(notification["count"]) > 0
NotificationExists(count) == count > 0

\* variant: system-scoped definitions are skipped on every version
SkipDefinition_AnyVersion(v4, event) == event.scope = "SYSTEM_NOTIFICATION_EVENT"

\* not self.is_v4 and event_definition["_scope"] == "SYSTEM_NOTIFICATION_EVENT"
SkipDefinition(v4, event) == ~v4 /\ event.scope = "SYSTEM_NOTIFICATION_EVENT"

\* variant: the id appended is the one of the deleted notification
Rebind_AppendsStale(event, stale_id, new_id) ==
    [event EXCEPT !.notifications = Append(RemoveFirst(@, stale_id), stale_id)]

\* the pop of the stale reference and the append of the new one
Rebind(event, stale_id, new_id) ==
    [event EXCEPT !.notifications = Append(RemoveFirst(@, stale_id), new_id)]

\* variant: the helper logs the unexpected status and carries on
Raises_Swallowed(ok) == FALSE

\* a status the helper does not expect makes it raise; setup_webhook logs
\* and re-raises
Raises(ok) == ~ok

----------------------------------------------------------------------------
\* setup_webhook, one action per HTTP call

Definition(d, sys) ==
    [id |-> d,
     scope |-> IF d = sys THEN "SYSTEM_NOTIFICATION_EVENT" ELSE "DEFAULT",
     notifications |-> IF d % 2 = 1 THEN <<ForeignNotification.id>> ELSE <<>>]

StartSetup ==
    /\ is_v4 \in BOOLEAN
    /\ r_cascade \in BOOLEAN
    /\ r_notifications = {ForeignNotification}
    /\ r_next_id = ForeignNotification.id + 1
    /\ r_whitelist \in {<<ForeignWhitelistEntry>>,
                        <<ForeignWhitelistEntry,
                          WhitelistEntry(notification_name, CallbackUrl)>>}
    /\ \E n \in 0..MaxDefs : \E sys \in 0..n :
          r_definitions = [d \in 1..n |-> Definition(d, sys)]
    /\ pc = "idle"
    /\ event_definitions = <<>>
    /\ total_pages = 0
    /\ page = 1
    /\ url_whitelist = <<>>
    /\ existing_notification_id = NoId
    /\ new_notification = NoId
    /\ def_index = 1
    /\ requests = <<>>
    /\ outcomes = <<>>

remoteVars == <<r_notifications, r_next_id, r_whitelist, r_definitions>>
localVars == <<event_definitions, total_pages, page, url_whitelist,
               existing_notification_id, new_notification, def_index>>

\* the except clause of setup_webhook: log and re-raise
Raise ==
    /\ pc' = "raised"
    /\ outcomes' = Append(outcomes, "raised")

Call(name, ok) == requests' = Append(requests, [call |-> name, ok |-> ok])

\* entry of setup_webhook, up to the first request
SetupWebhook ==
    /\ pc \in {"idle", "done", "raised"}
    /\ Len(outcomes) < MaxRuns
    /\ pc' = "get_events"
    /\ event_definitions' = <<>>
    /\ total_pages' = 0
    /\ page' = 1
    /\ url_whitelist' = <<>>
    /\ existing_notification_id' = NoId
    /\ new_notification' = NoId
    /\ def_index' = 1
    /\ requests' = <<>>
    /\ UNCHANGED <<hostVars, alertVars, mapVars, extVars, is_v4, r_cascade, remoteVars, outcomes>>

\* __get_events(page, per_page=100) for page 1 and for the pages of the loop
GetEvents(ok) ==
    /\ pc = "get_events"
    /\ Call("get_events", ok)
    /\ IF Raises(ok)
       THEN /\ Raise
            /\ UNCHANGED localVars
       ELSE LET resp == EventsResponse(r_definitions, page, DefsPerPage)
                pages == IF page = 1
                         THEN TotalPages(resp.total, DefsPerPage)
                         ELSE total_pages
            IN /\ event_definitions' =
                      event_definitions \o resp.event_definitions
               /\ total_pages' = pages
               /\ page' = page + 1
               /\ pc' = IF InPageRange(page + 1, pages)
                        THEN "get_events" ELSE "get_whitelist"
               /\ UNCHANGED <<url_whitelist, existing_notification_id,
                              new_notification, def_index, outcomes>>
    /\ UNCHANGED <<hostVars, alertVars, mapVars, extVars, is_v4, r_cascade, remoteVars>>

\* __get_url_whitelist and the search for the callback URL
GetUrlWhitelist(ok) ==
    /\ pc = "get_whitelist"
    /\ Call("get_whitelist", ok)
    /\ IF Raises(ok)
       THEN /\ Raise
            /\ UNCHANGED localVars
       ELSE /\ IF UrlFound(r_whitelist, keep_api_url)
               THEN /\ url_whitelist' = r_whitelist
                    /\ pc' = "get_notification"
               ELSE /\ url_whitelist' =
                         Append(r_whitelist,
                                WhitelistEntry(notification_name, keep_api_url))
                    /\ pc' = "put_whitelist"
            /\ UNCHANGED <<event_definitions, total_pages, page,
                           existing_notification_id, new_notification,
                           def_index, outcomes>>
    /\ UNCHANGED <<hostVars, alertVars, mapVars, extVars, is_v4, r_cascade, remoteVars>>

\* __update_url_whitelist: whole-list PUT
UpdateUrlWhitelist(ok) ==
    /\ pc = "put_whitelist"
    /\ Call("put_whitelist", ok)
    /\ IF Raises(ok)
       THEN /\ Raise
            /\ UNCHANGED r_whitelist
       ELSE /\ r_whitelist' = url_whitelist
            /\ pc' = "get_notification"
            /\ UNCHANGED outcomes
    /\ UNCHANGED <<hostVars, alertVars, mapVars, extVars, is_v4, r_cascade, r_notifications, r_next_id,
                   r_definitions, localVars>>

\* __get_notification(page=1, per_page=1, notification_name)
GetNotification(ok) ==
    /\ pc = "get_notification"
    /\ Call("get_notification", ok)
    /\ IF Raises(ok)
       THEN /\ Raise
            /\ UNCHANGED localVars
       ELSE LET found == NotificationsWithTitle(r_notifications,
                                                notification_name)
            IN /\ IF NotificationExists(Cardinality(found))
                  THEN /\ \E n \in found : existing_notification_id' = n.id
                       /\ pc' = "delete_notification"
                  ELSE /\ existing_notification_id' = NoId
                       /\ pc' = "create_notification"
               /\ UNCHANGED <<event_definitions, total_pages, page,
                              url_whitelist, new_notification, def_index,
                              outcomes>>
    /\ UNCHANGED <<hostVars, alertVars, mapVars, extVars, is_v4, r_cascade, remoteVars>>

\* __delete_notification(existing_notification_id)
DeleteNotification(ok) ==
    /\ pc = "delete_notification"
    /\ Call("delete_notification", ok)
    /\ IF Raises(ok)
       THEN /\ Raise
            /\ UNCHANGED <<r_notifications, r_definitions>>
       ELSE /\ r_notifications' =
                 {n \in r_notifications : n.id # existing_notification_id}
            /\ r_definitions' =
                 DefinitionsAfterDelete(r_definitions,
                                        existing_notification_id, r_cascade)
            /\ pc' = "create_notification"
            /\ UNCHANGED outcomes
    /\ UNCHANGED <<hostVars, alertVars, mapVars, extVars, is_v4, r_cascade, r_next_id, r_whitelist, localVars>>

\* after the create and after each definition: the next definition or the end
Advance(next) ==
    IF next > Len(event_definitions)
    THEN /\ pc' = "done"
         /\ outcomes' = Append(outcomes, "done")
    ELSE /\ pc' = "update_events"
         /\ UNCHANGED outcomes

\* __create_notification(notification_name, notification_body)
CreateNotification(ok) ==
    /\ pc = "create_notification"
    /\ Call("create_notification", ok)
    /\ IF Raises(ok)
       THEN /\ Raise
            /\ UNCHANGED <<r_notifications, r_next_id, new_notification>>
       ELSE LET body == NotificationBody(notification_name, keep_api_url,
                                         ApiKey, is_v4)
                created == [id |-> r_next_id, title |-> body.title,
                            description |-> body.description,
                            config |-> body.config]
            IN /\ r_notifications' = r_notifications \cup {created}
               /\ r_next_id' = r_next_id + 1
               /\ new_notification' = created.id
               /\ Advance(1)
    /\ def_index' = 1
    /\ UNCHANGED <<hostVars, alertVars, mapVars, extVars, is_v4, r_cascade, r_whitelist, r_definitions,
                   event_definitions, total_pages, page, url_whitelist,
                   existing_notification_id>>

\* the continue of the loop for a system-scoped definition on non-v4
SkipEvent ==
    /\ pc = "update_events"
    /\ SkipDefinition(is_v4, event_definitions[def_index])
    /\ def_index' = def_index + 1
    /\ Advance(def_index + 1)
    /\ UNCHANGED <<hostVars, alertVars, mapVars, extVars, is_v4, r_cascade, remoteVars, event_definitions,
                   total_pages, page, url_whitelist,
                   existing_notification_id, new_notification, requests>>

\* the body of the loop: rebind the definition and __update_event it
UpdateEvent(ok) ==
    /\ pc = "update_events"
    /\ ~SkipDefinition(is_v4, event_definitions[def_index])
    /\ Call("update_event", ok)
    /\ LET event == Rebind(event_definitions[def_index],
                           existing_notification_id, new_notification)
       IN /\ event_definitions' =
                 [event_definitions EXCEPT ![def_index] = event]
          /\ IF Raises(ok)
             THEN /\ Raise
                  /\ UNCHANGED <<r_definitions, def_index>>
             ELSE /\ r_definitions' = DefinitionsAfterUpdate(r_definitions, event)
                  /\ def_index' = def_index + 1
                  /\ Advance(def_index + 1)
    /\ UNCHANGED <<hostVars, alertVars, mapVars, extVars, is_v4, r_cascade, r_notifications, r_next_id, r_whitelist,
                   total_pages, page, url_whitelist,
                   existing_notification_id, new_notification>>

NextSetup ==
    \/ SetupWebhook
    \/ \E ok \in BOOLEAN : GetEvents(ok)
    \/ \E ok \in BOOLEAN : GetUrlWhitelist(ok)
    \/ \E ok \in BOOLEAN : UpdateUrlWhitelist(ok)
    \/ \E ok \in BOOLEAN : GetNotification(ok)
    \/ \E ok \in BOOLEAN : DeleteNotification(ok)
    \/ \E ok \in BOOLEAN : CreateNotification(ok)
    \/ SkipEvent
    \/ \E ok \in BOOLEAN : UpdateEvent(ok)

InitSetup == StartSetup /\ IdleHost /\ IdleAlerts /\ IdleMap /\ IdleExt

SpecSetup == InitSetup /\ [][NextSetup]_vars

----------------------------------------------------------------------------
\* Vocabulary of the claims about setup_webhook

\* the notifications of the backend that carry the derived title
TitledNotifications == {n \in r_notifications : n.title = notification_name}

\* ids of the notifications created by runs of setup_webhook so far
AdapterCreatedIds == (ForeignNotification.id + 1)..(r_next_id - 1)

LiveIds == {n.id : n \in r_notifications}

\* adapter-created notifications that have been deleted since
SupersededIds == AdapterCreatedIds \ LiveIds

\* does the whitelist hold an entry whose value is the url
Whitelisted(whitelist, url) == url \in {whitelist[i].value : i \in 1..Len(whitelist)}

WhitelistCount(whitelist, url) ==
    Cardinality({i \in 1..Len(whitelist) : whitelist[i].value = url})

\* definitions that step 7 of the provisioning exempts from rebinding
Exempt(def) == ~is_v4 /\ def.scope = "SYSTEM_NOTIFICATION_EVENT"

Calls == {requests[i].call : i \in 1..Len(requests)}

RunsDone == Len(outcomes)

\* C1: two setup_webhook runs in sequence, both succeeding, leave exactly one
\* notification with the derived title, and every event definition (those the
\* rebinding step exempts by scope set aside) holds that notification's id
\* exactly once.
C1_SetupTwiceIdempotent ==
    (pc = "done" /\ outcomes = <<"done", "done">>) =>
        /\ Cardinality(TitledNotifications) = 1
        /\ \A i \in 1..Len(r_definitions) :
              ~Exempt(r_definitions[i]) =>
                  CountOf(r_definitions[i].notifications, new_notification) = 1

\* C2: after every successful run, whatever completed or aborted runs came
\* before it, the backend holds exactly one notification with the derived
\* title.
C2_ExactlyOneNotification ==
    pc = "done" => Cardinality(TitledNotifications) = 1

\* a successful run that follows an aborted one and that found and deleted a
\* notification left behind
C2_Witness ==
    /\ pc = "done"
    /\ "raised" \in SeqRange(outcomes)
    /\ existing_notification_id # NoId
    /\ "delete_notification" \in Calls

\* C3: after a successful run every event definition of the backend (those the
\* rebinding step exempts by scope set aside) references the newly created
\* notification and no adapter-created notification that has been deleted.
C3_AllDefinitionsRebound ==
    pc = "done" =>
        \A i \in 1..Len(r_definitions) :
            ~Exempt(r_definitions[i]) =>
                /\ new_notification \in SeqRange(r_definitions[i].notifications)
                /\ SeqRange(r_definitions[i].notifications) \cap SupersededIds = {}

\* the definitions the current run collected and does not skip
BoundDefinitionIds ==
    {event_definitions[i].id : i \in
        {j \in 1..Len(event_definitions) : ~Exempt(event_definitions[j])}}

\* C4: a failure-free run that follows an aborted run ends as a single
\* failure-free run does: one notification with the title, the callback URL
\* whitelisted once, and every bound definition referencing, among the
\* adapter-created ids, only the current notification.
C4_RerunConverges ==
    (pc = "done" /\ RunsDone >= 2 /\ outcomes[RunsDone - 1] = "raised") =>
        /\ Cardinality(TitledNotifications) = 1
        /\ WhitelistCount(r_whitelist, keep_api_url) = 1
        /\ \A i \in 1..Len(r_definitions) :
              r_definitions[i].id \in BoundDefinitionIds =>
                  SeqRange(r_definitions[i].notifications) \cap AdapterCreatedIds
                      = {new_notification}

\* C5: a remote call of setup_webhook that answers with an unexpected status
\* is the last request of its run, and the run has raised.
C5_FailureAborts ==
    \A i \in 1..Len(requests) :
        ~requests[i].ok => (i = Len(requests) /\ pc = "raised")

\* a run that raised part-way through the definition updates
C5_Witness ==
    /\ pc = "raised"
    /\ Len(requests) >= 2
    /\ requests[Len(requests)].call = "update_event"
    /\ requests[Len(requests) - 1].call = "update_event"
    /\ ~requests[Len(requests)].ok

\* C6: while the whitelist holds the callback URL that setup_webhook uses (on
\* v4 the one with the api key appended), a run that reads the whitelist goes
\* on to the notification lookup, no step issues a whitelist PUT and the
\* whitelist stays as it is.
C6_WhitelistUpsertNoop ==
    [][Whitelisted(r_whitelist, keep_api_url) =>
          /\ r_whitelist' = r_whitelist
          /\ (Len(requests') > Len(requests) =>
                  requests'[Len(requests')].call # "put_whitelist")
          /\ (pc = "get_whitelist" /\ pc' # "raised" =>
                  pc' = "get_notification")]_vars

\* a v4 run that found the key-carrying URL whitelisted and moved on
C6_Witness ==
    /\ is_v4
    /\ pc = "get_notification"
    /\ Whitelisted(r_whitelist, keep_api_url)
    /\ Calls = {"get_events", "get_whitelist"}

----------------------------------------------------------------------------
\* graylog_host
\*
\* A URL string is a record: its scheme prefix ("" when it has none), the
\* host part, and the number of trailing slashes.

Schemes == {"", "http://", "https://"}
Hosts == {"graylog.local", "10.0.0.5:9000"}
Urls == [scheme : Schemes, host : Hosts, slashes : 0..2]

\* deployment_url.startswith("http://") or deployment_url.startswith("https://")
HasScheme(url) == url.scheme \in {"http://", "https://"}

\* f"https://{deployment_url}" and f"http://{deployment_url}"
WithScheme(scheme, url) == [url EXCEPT !.scheme = scheme]

\* deployment_url.rstrip("/")
RStripSlash(url) == [url EXCEPT !.slashes = 0]

\* variant: the cached value is never used
HostCached_Never(h) == FALSE

\* if self._host: neither None nor the empty string
HostCached(h) ==
    /\ h # <<>>
    /\ ~(h[1].scheme = "" /\ h[1].host = "" /\ h[1].slashes = 0)

\* what requests.get(f"https://{deployment_url}") can do
ProbeOutcomes == {"ok", "ssl_error", "error"}

\* variant: the generic handler comes first and catches the TLS error too
ResolvedHost_GenericFirst(url, outcome) ==
    IF outcome = "ok" THEN WithScheme("https://", url) ELSE RStripSlash(url)

\* the try/except around the probe
ResolvedHost(url, outcome) ==
    CASE outcome = "ok" -> WithScheme("https://", url)
      [] outcome = "ssl_error" -> WithScheme("http://", url)
      [] OTHER -> RStripSlash(url)

StartHost ==
    /\ deployment_url \in Urls
    /\ _host = <<>>
    /\ probes = 0
    /\ host_returns = <<>>
    /\ probe_outcomes = <<>>

\* one access of the graylog_host property
GraylogHost(outcome) ==
    /\ Len(host_returns) < MaxAccesses
    /\ IF HostCached(_host)
       THEN /\ host_returns' = Append(host_returns, _host[1])
            /\ UNCHANGED <<_host, probes, probe_outcomes>>
       ELSE IF HasScheme(deployment_url)
       THEN /\ _host' = <<deployment_url>>
            /\ host_returns' = Append(host_returns, deployment_url)
            /\ UNCHANGED <<probes, probe_outcomes>>
       ELSE /\ probes' = probes + 1
            /\ probe_outcomes' = Append(probe_outcomes, outcome)
            /\ _host' = <<ResolvedHost(deployment_url, outcome)>>
            /\ host_returns' =
                 Append(host_returns, ResolvedHost(deployment_url, outcome))
    /\ UNCHANGED <<setupVars, alertVars, mapVars, extVars, deployment_url>>

NextHost == \E outcome \in ProbeOutcomes : GraylogHost(outcome)

InitHost == StartHost /\ IdleSetup /\ IdleAlerts /\ IdleMap /\ IdleExt

SpecHost == InitHost /\ [][NextHost]_vars

\* C7: once graylog_host has returned a value, every later access returns that
\* value and issues no probe, whatever a probe would answer now.
C7_HostMemoized ==
    [][host_returns # <<>> =>
          /\ probes' = probes
          /\ \A i \in 1..Len(host_returns') :
                host_returns'[i] = host_returns[1]]_vars

\* a host first resolved by the other-failure fallback (trailing slashes
\* trimmed, no scheme) and accessed again
C7_Witness ==
    /\ Len(host_returns) >= 2
    /\ probes = 1
    /\ deployment_url.slashes > 0
    /\ host_returns[2] = RStripSlash(deployment_url)

----------------------------------------------------------------------------
\* __map_event_to_alert

\* [AlertSeverity.LOW, AlertSeverity.WARNING, AlertSeverity.HIGH]
Severities == <<"LOW", "WARNING", "HIGH">>

\* Python list indexing: a negative index counts from the end, an index
\* outside -len..len-1 raises IndexError
PyIndexable(list, i) == i >= 0 - Len(list) /\ i < Len(list)
PyIndex(list, i) == IF i >= 0 THEN list[i + 1] ELSE list[Len(list) + i + 1]

\* the index expression int(event["event"]["priority"]) - 1
SeverityIndex(priority) == priority - 1

\* variant: the deduplication key the source comment warns against
FINGERPRINT_FIELDS_DefinitionId == <<"event_definition_id">>

FINGERPRINT_FIELDS == <<"id">>

\* BaseProvider.get_alert_fingerprint: a hash over the values of the
\* fingerprint fields, in order; the hash is modelled as collision free
GetAlertFingerprint(alert, fields) == [i \in 1..Len(fields) |-> alert[fields[i]]]

\* datetime.fromisoformat(timestamp.replace("z", ""))
\*     .replace(tzinfo=timezone.utc).isoformat()
LastReceived(timestamp) == [clock |-> timestamp.clock, offset |-> "+00:00"]

MapEventToAlert(event) ==
    IF ~PyIndexable(Severities, SeverityIndex(event.event.priority))
    THEN [ok |-> FALSE, error |-> "IndexError"]
    ELSE LET alert ==
               [id |-> event.event.id,
                name |-> event.event_definition_title,
                severity |-> PyIndex(Severities,
                                     SeverityIndex(event.event.priority)),
                description |-> event.event_definition_description,
                event_definition_id |-> event.event.event_definition_id,
                status |-> "FIRING",
                lastReceived |-> LastReceived(event.event.timestamp),
                message |-> event.event.message,
                source |-> <<"graylog">>]
         IN [ok |-> TRUE,
             alert |-> [f \in DOMAIN alert \cup {"fingerprint"} |->
                          IF f = "fingerprint"
                          THEN GetAlertFingerprint(alert, FINGERPRINT_FIELDS)
                          ELSE alert[f]]]

Priorities == (0 - MaxPriority)..MaxPriority

RawEvent(id, priority, def_id, message, suffix) ==
    [event |-> [id |-> id, priority |-> priority,
                event_definition_id |-> def_id, message |-> message,
                timestamp |-> [clock |-> "2024-12-23T18:49:00",
                               suffix |-> suffix]],
     event_definition_title |-> <<"title-", def_id>>,
     event_definition_description |-> "description"]

RawEvents ==
    {RawEvent(id, priority, def_id, message, suffix) :
        id \in 1..MaxEventId, priority \in Priorities,
        def_id \in 1..MaxEventId, message \in {"cpu high", "disk full"},
        suffix \in {"", "z"}}

StartMap ==
    /\ raw_events \in [1..2 -> RawEvents]
    /\ mapped = [k \in 1..2 |-> <<>>]

\* __map_event_to_alert(event=raw_events[k])
MapEvent(k) ==
    /\ mapped[k] = <<>>
    /\ mapped' = [mapped EXCEPT ![k] = <<MapEventToAlert(raw_events[k])>>]
    /\ UNCHANGED <<setupVars, hostVars, alertVars, extVars, raw_events>>

NextMap == \E k \in 1..2 : MapEvent(k)

InitMap == StartMap /\ IdleSetup /\ IdleHost /\ IdleAlerts /\ IdleExt

SpecMap == InitMap /\ [][NextMap]_vars

\* C9: priority 1 maps to LOW, 2 to WARNING, 3 to HIGH, and every priority
\* outside 1..3 fails with an out-of-range error instead of yielding an alert.
C9_SeverityMapping ==
    \A k \in DOMAIN mapped :
        mapped[k] # <<>> =>
            LET priority == raw_events[k].event.priority
                result == mapped[k][1]
            IN /\ priority = 1 => (result.ok /\ result.alert.severity = "LOW")
               /\ priority = 2 => (result.ok /\ result.alert.severity = "WARNING")
               /\ priority = 3 => (result.ok /\ result.alert.severity = "HIGH")
               /\ priority \notin 1..3 => ~result.ok

\* C10: the fingerprints of two mapped alerts are equal exactly when the
\* remote event ids of their raw events are equal, whatever the other fields.
C10_FingerprintIdentity ==
    (\A k \in DOMAIN mapped : mapped[k] # <<>> /\ mapped[k][1].ok) =>
        ((mapped[1][1].alert.fingerprint = mapped[2][1].alert.fingerprint)
            <=> (raw_events[1].event.id = raw_events[2].event.id))

\* two mapped events with the same remote id whose definition id, priority,
\* message and timestamp all differ
C10_Witness ==
    /\ \A k \in DOMAIN mapped : mapped[k] # <<>> /\ mapped[k][1].ok
    /\ raw_events[1].event.id = raw_events[2].event.id
    /\ raw_events[1].event.event_definition_id
          # raw_events[2].event.event_definition_id
    /\ raw_events[1].event.priority # raw_events[2].event.priority
    /\ raw_events[1].event.message # raw_events[2].event.message
    /\ raw_events[1].event.timestamp # raw_events[2].event.timestamp
    /\ mapped[1][1].alert.fingerprint = mapped[2][1].alert.fingerprint

----------------------------------------------------------------------------
\* _get_alerts

AlertsPerPage == 1000
MinAlertPages == 10

Max(a, b) == IF a > b THEN a ELSE b

\* variant: the page count without the floor
AlertPageCount_NoFloor(total) == CeilDiv(total, AlertsPerPage)

\* total_events = max(10, math.ceil(alerts_1["total_events"] / 1000))
AlertPageCount(total) == Max(MinAlertPages, CeilDiv(total, AlertsPerPage))

\* for page in range(2, total_events + 1): is p one of the pages of the loop
InAlertPageRange(p, count) == p >= 2 /\ p < count + 1

\* totals the backend may report on the first page
ReportedTotals == {0, 2500, 10000, 10001, 11001}

\* the events the backend may serve on a page: none, one valid event, and on
\* the first page also a valid event followed by one of priority 0 or 4
PageEvent(p, priority) ==
    RawEvent(p, priority, 1 + (p % MaxEventId), "cpu high", "z")

EventBatches(p) ==
    {<<>>, <<PageEvent(p, 1 + (p % 3))>>}
        \cup (IF p = 1
              THEN {<<PageEvent(p, 2), PageEvent(p + 100, 4)>>}
              ELSE {})

\* variant: the status of the response is not looked at
AlertsRaises_Swallowed(ok) == FALSE

\* response.status_code != 200 in __get_alerts: raise
AlertsRaises(ok) == ~ok

RECURSIVE MapAll(_)
\* [__map_event_to_alert(event) for event in all_alerts]: the first event
\* that fails to map makes the comprehension raise
MapAll(events) ==
    IF events = <<>> THEN [ok |-> TRUE, alerts |-> <<>>]
    ELSE LET first == MapEventToAlert(Head(events))
             rest == MapAll(Tail(events))
         IN IF first.ok /\ rest.ok
            THEN [ok |-> TRUE, alerts |-> <<first.alert>> \o rest.alerts]
            ELSE [ok |-> FALSE, alerts |-> <<>>]

StartAlerts ==
    /\ alerts_pc = "idle"
    /\ json_page = 1
    /\ all_alerts = <<>>
    /\ total_events = 0
    /\ alert_requests = <<>>
    /\ r_total_events \in ReportedTotals
    /\ r_served = <<>>
    /\ alerts_result = <<>>
    /\ alert_statuses = <<>>

\* the return of _get_alerts once page p was the last of the loop
AlertsFinish(events) ==
    IF MapAll(events).ok
    THEN /\ alerts_pc' = "returned"
         /\ alerts_result' = <<MapAll(events).alerts>>
    ELSE /\ alerts_pc' = "raised"
         /\ UNCHANGED alerts_result

\* __get_alerts(json_data) for page 1 and for the pages of the loop
GetAlertsPage(ok, batch) ==
    /\ alerts_pc \in {"idle", "paging"}
    /\ alert_requests' = Append(alert_requests, json_page)
    /\ alert_statuses' = Append(alert_statuses, ok)
    /\ IF AlertsRaises(ok)
       THEN /\ alerts_pc' = "raised"
            /\ UNCHANGED <<json_page, all_alerts, total_events, r_served,
                           alerts_result>>
       ELSE LET count == IF alerts_pc = "idle"
                         THEN AlertPageCount(r_total_events)
                         ELSE total_events
            IN /\ r_served' = Append(r_served, batch)
               /\ all_alerts' = all_alerts \o batch
               /\ total_events' = count
               /\ IF InAlertPageRange(json_page + 1, count)
                  THEN /\ json_page' = json_page + 1
                       /\ alerts_pc' = "paging"
                       /\ UNCHANGED alerts_result
                  ELSE /\ UNCHANGED json_page
                       /\ AlertsFinish(all_alerts \o batch)
    /\ UNCHANGED <<setupVars, hostVars, mapVars, extVars, r_total_events>>

NextAlerts ==
    \E ok \in BOOLEAN : \E batch \in EventBatches(json_page) :
        GetAlertsPage(ok, batch)

InitAlerts == StartAlerts /\ IdleSetup /\ IdleHost /\ IdleMap /\ IdleExt

SpecAlerts == InitAlerts /\ [][NextAlerts]_vars

RECURSIVE Flatten(_)
Flatten(batches) ==
    IF batches = <<>> THEN <<>> ELSE Head(batches) \o Flatten(Tail(batches))

CeilOfThousandths(total) ==
    CHOOSE n \in 0..(total \div 1000 + 1) :
        n * 1000 >= total /\ (n - 1) * 1000 < total

\* C8: when _get_alerts returns, it has issued max(10, ceil(T/1000)) page
\* requests for the first-page total T, for the pages 1, 2, 3, ... in that
\* order, and its result holds one alert per event served, in page order.
C8_AlertPagination ==
    alerts_pc = "returned" =>
        LET n == IF CeilOfThousandths(r_total_events) > 10
                 THEN CeilOfThousandths(r_total_events) ELSE 10
            served == Flatten(r_served)
            result == alerts_result[1]
        IN /\ alert_requests = [i \in 1..n |-> i]
           /\ Len(result) = Len(served)
           /\ \A i \in 1..Len(served) : result[i].id = served[i].event.id

\* a total above 10000 events: more pages than the floor, some with events
C8_Witness ==
    /\ alerts_pc = "returned"
    /\ r_total_events > 10000
    /\ Len(alert_requests) > 10
    /\ Len(alerts_result[1]) >= 2

----------------------------------------------------------------------------
\* _query and search
\*
\* A Python dict with optional keys is a record over all the keys whose
\* value is <<>> when the key is absent and <<v>> when it maps to v.  The
\* same encoding stands for an optional value (None is <<>>).

QueryKeys == {"query", "query_type", "timerange_seconds", "timerange_type",
              "page", "per_page"}

\* dict.get(key, default)
DictGet(d, key, default) == IF d[key] # <<>> THEN d[key][1] ELSE default

\* truthiness of an optional string: neither None nor ""
Truthy(x) == x # <<>> /\ x[1] # ""

\* a or b
OrElse(a, b) == IF Truthy(a) THEN a ELSE b

\* query = kwargs.get("query") or events_search_parameters.get("query")
QueryOf(kw, params) == OrElse(kw.query, params.query)

\* variant: the parameter mapping wins over the keyword arguments
Forwarded_MappingFirst(kw, params, key, default) ==
    DictGet(params, key, DictGet(kw, key, default))

\* kwargs.get(key, events_search_parameters.get(key, default))
Forwarded(kw, params, key, default) ==
    DictGet(kw, key, DictGet(params, key, default))

\* the arguments _query passes to search
SearchArguments(kw, params) ==
    [query |-> QueryOf(kw, params)[1],
     query_type |-> Forwarded(kw, params, "query_type", "elastic"),
     timerange_seconds |-> Forwarded(kw, params, "timerange_seconds", 300),
     timerange_type |-> Forwarded(kw, params, "timerange_type", "relative"),
     page |-> Forwarded(kw, params, "page", 0),
     per_page |-> Forwarded(kw, params, "per_page", 150)]

\* variant: the product is sent as it is
SearchOffset_NoClamp(p, per_page) == p * per_page

\* offset = page * per_page; if offset < 0: offset = 0
SearchOffset(p, per_page) ==
    IF p * per_page < 0 THEN 0 ELSE p * per_page

\* search_body
SearchBody(args) ==
    [parameters |-> <<>>,
     queries |-> <<[query |-> [type |-> args.query_type,
                               query_string |-> args.query],
                    timerange |-> [from |-> args.timerange_seconds,
                                   type |-> args.timerange_type],
                    search_types |-> <<[type |-> "messages",
                                        limit |-> args.per_page,
                                        offset |-> SearchOffset(args.page,
                                                                args.per_page),
                                        sort |-> <<[field |-> "timestamp",
                                                    order |-> "DESC"]>>]>>]>>]

\* variant: the status of the response is not looked at
SearchRaises_Swallowed(ok) == FALSE

\* search_response.raise_for_status()
SearchRaises(ok) == ~ok

\* the keyword arguments a caller may pass
KwargsChoices ==
    [query : {<<>>, <<"">>, <<"level:3">>},
     query_type : {<<>>, <<"lucene">>},
     timerange_seconds : {<<>>, <<3600>>},
     timerange_type : {<<>>, <<"absolute">>},
     page : {<<>>, <<0 - 1>>, <<2>>},
     per_page : {<<>>, <<50>>}]

\* the parameter mappings a caller may pass
MappingChoices ==
    {m \in [query : {<<>>, <<"">>, <<"source:web">>},
            query_type : {<<>>, <<"kql">>},
            timerange_seconds : {<<>>, <<60>>},
            timerange_type : {<<>>, <<"keyword">>},
            page : {<<>>, <<0>>, <<3>>},
            per_page : {<<>>, <<0 - 10>>}] :
        (m.query_type = <<>>) = (m.timerange_seconds = <<>>)}

\* the messages the sync search may answer with
SearchMessages == {<<>>, <<"message-1", "message-2">>}

StartQuery ==
    /\ kwargs \in KwargsChoices
    /\ events_search_parameters \in MappingChoices
    /\ q_pc = "idle"
    /\ search_args = <<>>
    /\ q_requests = <<>>
    /\ q_result = <<>>
    /\ q_responses = <<>>

\* _query up to the call it dispatches to
Query ==
    /\ q_pc = "idle"
    /\ IF Truthy(QueryOf(kwargs, events_search_parameters))
       THEN /\ search_args' =
                 <<SearchArguments(kwargs, events_search_parameters)>>
            /\ q_pc' = "search"
       ELSE /\ q_pc' = "alerts"
            /\ UNCHANGED search_args
    /\ UNCHANGED <<setupVars, hostVars, alertVars, mapVars, hostRaceVars,
                   setupRaceVars, lateVars, kwargs, events_search_parameters,
                   q_requests, q_result, q_responses>>

\* search: the POST to views/search/sync, raise_for_status, the messages
Search(ok, messages) ==
    /\ q_pc = "search"
    /\ q_requests' = Append(q_requests,
                            [endpoint |-> "views/search/sync",
                             body |-> SearchBody(search_args[1])])
    /\ q_responses' = Append(q_responses, [ok |-> ok, payload |-> messages])
    /\ IF SearchRaises(ok)
       THEN /\ q_pc' = "raised"
            /\ UNCHANGED q_result
       ELSE /\ q_pc' = "returned"
            /\ q_result' = <<messages>>
    /\ UNCHANGED <<setupVars, hostVars, alertVars, mapVars, hostRaceVars,
                   setupRaceVars, lateVars, kwargs, events_search_parameters,
                   search_args>>

\* json_data['page'] and json_data['per_page'] in the log line that opens
\* the try of __get_alerts: both keys must be there
LogLineFormats(json_data) == json_data.page # <<>> /\ json_data.per_page # <<>>

\* the alert search of _query: one __get_alerts call, its events mapped; the
\* call raises before its request when the log line cannot be formatted
QueryAlerts(ok, batch) ==
    /\ q_pc = "alerts"
    /\ IF ~LogLineFormats(events_search_parameters)
       THEN /\ q_pc' = "raised"
            /\ UNCHANGED <<q_requests, q_responses, q_result>>
       ELSE /\ q_requests' = Append(q_requests,
                                    [endpoint |-> "events/search",
                                     body |-> events_search_parameters])
            /\ q_responses' =
                   Append(q_responses, [ok |-> ok, payload |-> batch])
            /\ IF AlertsRaises(ok) \/ ~MapAll(batch).ok
               THEN /\ q_pc' = "raised"
                    /\ UNCHANGED q_result
               ELSE /\ q_pc' = "returned"
                    /\ q_result' = <<MapAll(batch).alerts>>
    /\ UNCHANGED <<setupVars, hostVars, alertVars, mapVars, hostRaceVars,
                   setupRaceVars, lateVars, kwargs, events_search_parameters,
                   search_args>>

NextQuery ==
    \/ Query
    \/ \E ok \in BOOLEAN : \E messages \in SearchMessages : Search(ok, messages)
    \/ \E ok \in BOOLEAN : \E batch \in EventBatches(1) : QueryAlerts(ok, batch)

InitQuery ==
    StartQuery /\ IdleSetup /\ IdleHost /\ IdleAlerts /\ IdleMap
        /\ IdleHostRace /\ IdleSetupRace /\ IdleLate

SpecQuery == InitQuery /\ [][NextQuery]_vars

SyncSearchOffsets ==
    {q_requests[i].body.queries[1].search_types[1].offset :
        i \in {j \in 1..Len(q_requests) :
                  q_requests[j].endpoint = "views/search/sync"}}

\* C11: the offset search sends is page * per_page when that product is not
\* negative and 0 otherwise; it is never negative.
C11_SearchOffsetClamped ==
    \A offset \in SyncSearchOffsets :
        LET product == search_args[1].page * search_args[1].per_page
        IN /\ offset >= 0
           /\ product >= 0 => offset = product
           /\ product < 0 => offset = 0

\* a search for page -1 of 50 per page, sent with offset 0
C11_Witness ==
    /\ q_pc = "returned"
    /\ search_args # <<>>
    /\ search_args[1].page = 0 - 1
    /\ search_args[1].per_page = 50
    /\ SyncSearchOffsets = {0}

\* what the claim expects _query to forward for a key
ExpectedForward(key, default) ==
    IF kwargs[key] # <<>> THEN kwargs[key][1]
    ELSE IF events_search_parameters[key] # <<>>
    THEN events_search_parameters[key][1]
    ELSE default

NonEmptyQueryPresent ==
    \/ (kwargs.query # <<>> /\ kwargs.query[1] # "")
    \/ (events_search_parameters.query # <<>>
            /\ events_search_parameters.query[1] # "")

\* C13: _query calls search exactly when a non-empty query string is present
\* in the keyword arguments or in the mapping, and then forwards, for each of
\* query_type, timerange_seconds, timerange_type, page and per_page, the
\* keyword argument if given, else the mapping's value, else the default.
C13_QueryDispatch ==
    q_pc # "idle" =>
        /\ (search_args # <<>>) <=> NonEmptyQueryPresent
        /\ ~NonEmptyQueryPresent =>
              \A i \in 1..Len(q_requests) :
                  q_requests[i].endpoint = "events/search"
        /\ search_args # <<>> =>
              /\ search_args[1].query_type
                    = ExpectedForward("query_type", "elastic")
              /\ search_args[1].timerange_seconds
                    = ExpectedForward("timerange_seconds", 300)
              /\ search_args[1].timerange_type
                    = ExpectedForward("timerange_type", "relative")
              /\ search_args[1].page = ExpectedForward("page", 0)
              /\ search_args[1].per_page = ExpectedForward("per_page", 150)

\* a search whose page is given both ways, whose query_type comes from the
\* mapping alone and whose per_page falls back to the default
C13_Witness ==
    /\ q_pc = "returned"
    /\ search_args # <<>>
    /\ kwargs.page = <<2>>
    /\ events_search_parameters.page = <<3>>
    /\ search_args[1].page = 2
    /\ kwargs.query_type = <<>>
    /\ search_args[1].query_type = "kql"
    /\ search_args[1].per_page = 150

----------------------------------------------------------------------------
\* Further claims about setup_webhook (SpecSetup)

\* C12: the notification setup_webhook creates has, on a v4 backend, a config
\* of exactly the two fields type 'http-notification-v1' and url (the callback
\* URL the run uses); on a non-v4 backend type 'http-notification-v2', method
\* POST, content type JSON, TLS verification skipped and the headers
\* 'X-API-KEY:<api_key>'.
C12_NotificationBody ==
    \A n \in TitledNotifications :
        IF is_v4
        THEN /\ DOMAIN n.config = {"type", "url"}
             /\ n.config.type = "http-notification-v1"
             /\ n.config.url.base = CallbackUrl.base
             /\ n.config.url.provider_id = CallbackUrl.provider_id
        ELSE /\ n.config.type = "http-notification-v2"
             /\ n.config.method = "POST"
             /\ n.config.content_type = "JSON"
             /\ n.config.skip_tls_verification = TRUE
             /\ n.config.headers = <<"X-API-KEY:", ApiKey>>
             /\ n.config.url.base = CallbackUrl.base
             /\ n.config.url.provider_id = CallbackUrl.provider_id

\* a completed run on a v4 backend, its notification in place
C12_Witness ==
    /\ is_v4
    /\ pc = "done"
    /\ \E n \in TitledNotifications : n.id = new_notification

\* C16: once the enumeration of a run is over, the collected list holds every
\* event definition of the backend exactly once, in page order.
C16_AllDefinitionsEnumerated ==
    pc = "get_whitelist" =>
        [i \in 1..Len(event_definitions) |-> event_definitions[i].id]
            = [i \in 1..Len(r_definitions) |-> r_definitions[i].id]

\* the position of a call in the order of the steps
Rank(call) ==
    CASE call = "get_events" -> 1
      [] call = "get_whitelist" -> 2
      [] call = "put_whitelist" -> 3
      [] call = "get_notification" -> 4
      [] call = "delete_notification" -> 5
      [] call = "create_notification" -> 6
      [] call = "update_event" -> 7

\* C17: within a run the requests follow the order definitions listing,
\* whitelist read, whitelist write, notification lookup, delete, create,
\* definition updates; every request comes after successful ones only, and
\* an update is sent only after the run's create succeeded and carries, as
\* its last reference, the id that create returned.
C17_StepOrder ==
    [][(requests' # requests /\ requests' # <<>>) =>
          LET n == Len(requests')
              new == requests'[n].call
          IN /\ \A i \in 1..(n - 1) :
                   /\ requests'[i].ok
                   /\ Rank(requests'[i].call) <= Rank(new)
                   /\ new \notin {"get_events", "update_event"} =>
                          Rank(requests'[i].call) < Rank(new)
             /\ new = "update_event" =>
                   /\ \E i \in 1..(n - 1) :
                         requests'[i].call = "create_notification"
                   /\ new_notification = r_next_id - 1
                   /\ new_notification \notin {NoId, existing_notification_id}
                   /\ LET sent == event_definitions'[def_index].notifications
                      IN sent[Len(sent)] = new_notification]_vars

\* a completed run that deleted the notification of an earlier run, created a
\* new one and updated definitions
C17_Witness ==
    /\ pc = "done"
    /\ Calls = {"get_events", "get_whitelist", "get_notification",
                "delete_notification", "create_notification", "update_event"}

UpdateCalls == {i \in 1..Len(requests) : requests[i].call = "update_event"}

\* C18: a system-scoped definition on a non-v4 backend keeps the notification
\* list it started with; a completed run has sent one update per collected
\* definition that is not such a definition, and each of those holds the new
\* notification's id once.
C18_ScopeFilter ==
    /\ \A i \in 1..Len(r_definitions) :
          Exempt(r_definitions[i]) =>
              r_definitions[i].notifications = Definition(i, i).notifications
    /\ pc = "done" =>
          /\ Cardinality(UpdateCalls) =
                Cardinality({i \in 1..Len(event_definitions) :
                                ~Exempt(event_definitions[i])})
          /\ \A i \in 1..Len(event_definitions) :
                ~Exempt(event_definitions[i]) =>
                    CountOf(r_definitions[i].notifications, new_notification) = 1

\* a completed non-v4 run that skipped a system-scoped definition and updated
\* others
C18_Witness ==
    /\ ~is_v4
    /\ pc = "done"
    /\ \E i \in 1..Len(event_definitions) : Exempt(event_definitions[i])
    /\ Cardinality(UpdateCalls) >= 1

\* C19: on a v4 backend the URL stored in the notification is the callback URL
\* with the api key appended and the config has no headers; on a non-v4
\* backend the stored URL is the callback URL unchanged and the key appears
\* in the headers only.
C19_ApiKeyPlacement ==
    \A n \in TitledNotifications :
        IF is_v4
        THEN /\ n.config.url = [CallbackUrl EXCEPT !.api_key = ApiKey]
             /\ "headers" \notin DOMAIN n.config
        ELSE /\ n.config.url = CallbackUrl
             /\ n.config.url.api_key = ""
             /\ n.config.api_key = ""
             /\ n.config.headers = <<"X-API-KEY:", ApiKey>>

\* a notification created on a v4 backend
C19_Witness ==
    /\ is_v4
    /\ \E n \in TitledNotifications : n.config.url.api_key = ApiKey

----------------------------------------------------------------------------
\* Further claims about graylog_host (SpecHost)

\* C20: a deployment URL with an explicit scheme is returned verbatim and no
\* probe is issued; otherwise exactly one probe is issued and the host is
\* https://<url> if the probe raised nothing, http://<url> if it raised a TLS
\* error, and the configured value without trailing slashes otherwise.
C20_HostResolution ==
    /\ host_returns = <<>> => probes = 0
    /\ host_returns # <<>> =>
          IF deployment_url.scheme \in {"http://", "https://"}
          THEN /\ probes = 0
               /\ host_returns[1] = deployment_url
          ELSE /\ probes = 1
               /\ Len(probe_outcomes) = 1
               /\ host_returns[1].host = deployment_url.host
               /\ probe_outcomes[1] = "ok" =>
                     /\ host_returns[1].scheme = "https://"
                     /\ host_returns[1].slashes = deployment_url.slashes
               /\ probe_outcomes[1] = "ssl_error" =>
                     /\ host_returns[1].scheme = "http://"
                     /\ host_returns[1].slashes = deployment_url.slashes
               /\ probe_outcomes[1] = "error" =>
                     /\ host_returns[1].scheme = ""
                     /\ host_returns[1].slashes = 0

\* a scheme-less URL whose probe raised a TLS error
C20_Witness ==
    /\ deployment_url.scheme = ""
    /\ probe_outcomes = <<"ssl_error">>
    /\ host_returns # <<>>
    /\ host_returns[1].scheme = "http://"

----------------------------------------------------------------------------
\* graylog_host accessed from two execution contexts on one instance. The
\* property takes no lock: between its check of self._host, its probe, its
\* assignment and its return another context may run.

Contexts == {1, 2}

\* variant: the check of the cached value and of the scheme is skipped
HostBranch_AlwaysProbe(cached, url) == "probe"

\* lines 240-253: which way an access goes
HostBranch(cached, url) ==
    IF HostCached(cached) THEN "return"
    ELSE IF HasScheme(url) THEN "verbatim"
    ELSE "probe"

StartHostRace ==
    /\ deployment_url \in Urls
    /\ _host = <<>>
    /\ probes = 0
    /\ host_returns = <<>>
    /\ probe_outcomes = <<>>
    /\ h_pc = [c \in Contexts |-> "idle"]
    /\ h_outcome = [c \in Contexts |-> "none"]
    /\ h_return = [c \in Contexts |-> <<>>]

hostRaceFrame == <<setupVars, alertVars, mapVars, queryVars, setupRaceVars,
                   lateVars,
                   deployment_url>>

\* if self._host: ... / if deployment_url.startswith(...)
HostCheck(c) ==
    /\ h_pc[c] = "idle"
    /\ Len(host_returns) < MaxAccesses
    /\ h_pc' = [h_pc EXCEPT ![c] = HostBranch(_host, deployment_url)]
    /\ UNCHANGED <<hostRaceFrame, _host, probes, host_returns, probe_outcomes,
                   h_outcome, h_return>>

\* self._host = deployment_url
HostVerbatim(c) ==
    /\ h_pc[c] = "verbatim"
    /\ _host' = <<deployment_url>>
    /\ h_pc' = [h_pc EXCEPT ![c] = "return"]
    /\ UNCHANGED <<hostRaceFrame, probes, host_returns, probe_outcomes,
                   h_outcome, h_return>>

\* requests.get(f"https://{deployment_url}", verify=...)
HostProbe(c, outcome) ==
    /\ h_pc[c] = "probe"
    /\ probes' = probes + 1
    /\ probe_outcomes' = Append(probe_outcomes, outcome)
    /\ h_outcome' = [h_outcome EXCEPT ![c] = outcome]
    /\ h_pc' = [h_pc EXCEPT ![c] = "assign"]
    /\ UNCHANGED <<hostRaceFrame, _host, host_returns, h_return>>

\* the assignment to self._host in the try body or in a handler
HostAssign(c) ==
    /\ h_pc[c] = "assign"
    /\ _host' = <<ResolvedHost(deployment_url, h_outcome[c])>>
    /\ h_pc' = [h_pc EXCEPT ![c] = "return"]
    /\ UNCHANGED <<hostRaceFrame, probes, host_returns, probe_outcomes,
                   h_outcome, h_return>>

\* return self._host: the field is read again
HostReturn(c) ==
    /\ h_pc[c] = "return"
    /\ h_return' = [h_return EXCEPT ![c] = _host]
    /\ host_returns' = Append(host_returns, _host[1])
    /\ h_pc' = [h_pc EXCEPT ![c] = "idle"]
    /\ UNCHANGED <<hostRaceFrame, _host, probes, probe_outcomes, h_outcome>>

NextHostRace ==
    \E c \in Contexts :
        \/ HostCheck(c)
        \/ HostVerbatim(c)
        \/ \E outcome \in ProbeOutcomes : HostProbe(c, outcome)
        \/ HostAssign(c)
        \/ HostReturn(c)

InitHostRace ==
    StartHostRace /\ IdleSetup /\ IdleAlerts /\ IdleMap /\ IdleQuery
        /\ IdleSetupRace /\ IdleLate

SpecHostRace == InitHostRace /\ [][NextHostRace]_vars

\* the host a probe with this outcome stands for
HostAfter(url, outcome) ==
    [scheme |-> CASE outcome = "ok" -> "https://"
                  [] outcome = "ssl_error" -> "http://"
                  [] OTHER -> "",
     host |-> url.host,
     slashes |-> IF outcome \in {"ok", "ssl_error"} THEN url.slashes ELSE 0]

----------------------------------------------------------------------------
\* setup_webhook run from two execution contexts with different callback
\* URLs against one backend, one action per HTTP call, every call
\* succeeding. The listing of the definitions is taken as one step.

RaceDefCounts == {1, 2}

RaceCallbackUrl(c) ==
    [CallbackUrl EXCEPT !.provider_id = IF c = 1 THEN "p1" ELSE "p2"]

RaceNotificationName(c) == NotificationName(RaceCallbackUrl(c))

RaceKeepApiUrl(c) == KeepApiUrl(RaceCallbackUrl(c), ApiKey, is_v4)

\* the notification an earlier run of context 1 left on the backend
EarlierNotification(v4) ==
    [id |-> ForeignNotification.id + 1,
     title |-> NotificationName(RaceCallbackUrl(1)),
     description |-> "created by Keep",
     config |-> NotificationConfig(KeepApiUrl(RaceCallbackUrl(1), ApiKey, v4),
                                   ApiKey, v4)]

RECURSIVE LoopPages(_, _, _, _)
\* the pages the loop for page in range(2, total_pages) fetches, concatenated
LoopPages(defs, p, pages, per_page) ==
    IF InPageRange(p, pages)
    THEN EventsResponse(defs, p, per_page).event_definitions
             \o LoopPages(defs, p + 1, pages, per_page)
    ELSE <<>>

\* event_definitions after lines 564-573
CollectedDefinitions(defs, per_page) ==
    LET events_1 == EventsResponse(defs, 1, per_page)
    IN events_1.event_definitions
           \o LoopPages(defs, 2, TotalPages(events_1.total, per_page), per_page)

StartSetupRace ==
    /\ is_v4 \in BOOLEAN
    /\ r_cascade \in BOOLEAN
    /\ r_whitelist = <<ForeignWhitelistEntry>>
    /\ \E earlier \in BOOLEAN : \E n \in RaceDefCounts : \E sys \in 0..n :
          /\ r_notifications =
                IF earlier
                THEN {ForeignNotification, EarlierNotification(is_v4)}
                ELSE {ForeignNotification}
          /\ r_next_id = ForeignNotification.id + (IF earlier THEN 2 ELSE 1)
          /\ r_definitions =
                [d \in 1..n |->
                    IF earlier /\ d # sys
                    THEN [Definition(d, sys) EXCEPT !.notifications =
                             Append(@, ForeignNotification.id + 1)]
                    ELSE Definition(d, sys)]
    /\ pc = "idle"
    /\ event_definitions = <<>>
    /\ total_pages = 0
    /\ page = 1
    /\ url_whitelist = <<>>
    /\ existing_notification_id = NoId
    /\ new_notification = NoId
    /\ def_index = 1
    /\ requests = <<>>
    /\ outcomes = <<>>
    /\ c_pc = [c \in Contexts |-> "idle"]
    /\ c_event_definitions = [c \in Contexts |-> <<>>]
    /\ c_url_whitelist = [c \in Contexts |-> <<>>]
    /\ c_existing_notification_id = [c \in Contexts |-> NoId]
    /\ c_new_notification = [c \in Contexts |-> NoId]
    /\ c_def_index = [c \in Contexts |-> 1]

setupRaceFrame == <<hostVars, alertVars, mapVars, queryVars, hostRaceVars,
                    lateVars,
                    is_v4, r_cascade, pc, event_definitions, total_pages,
                    page, url_whitelist, existing_notification_id,
                    new_notification, def_index, requests, outcomes>>

\* lines 564-573
RaceGetEvents(c) ==
    /\ c_pc[c] = "idle"
    /\ c_event_definitions' =
          [c_event_definitions EXCEPT
              ![c] = CollectedDefinitions(r_definitions, DefsPerPage)]
    /\ c_pc' = [c_pc EXCEPT ![c] = "get_whitelist"]
    /\ UNCHANGED <<setupRaceFrame, remoteVars, c_url_whitelist,
                   c_existing_notification_id, c_new_notification,
                   c_def_index>>

\* lines 575-588: the whitelist read and the search for the callback URL
RaceGetUrlWhitelist(c) ==
    /\ c_pc[c] = "get_whitelist"
    /\ IF UrlFound(r_whitelist, RaceKeepApiUrl(c))
       THEN /\ c_url_whitelist' = [c_url_whitelist EXCEPT ![c] = r_whitelist]
            /\ c_pc' = [c_pc EXCEPT ![c] = "get_notification"]
       ELSE /\ c_url_whitelist' =
                 [c_url_whitelist EXCEPT
                     ![c] = Append(r_whitelist,
                                   WhitelistEntry(RaceNotificationName(c),
                                                  RaceKeepApiUrl(c)))]
            /\ c_pc' = [c_pc EXCEPT ![c] = "put_whitelist"]
    /\ UNCHANGED <<setupRaceFrame, remoteVars, c_event_definitions,
                   c_existing_notification_id, c_new_notification,
                   c_def_index>>

\* line 593: the whole-list PUT of the list read earlier
RaceUpdateUrlWhitelist(c) ==
    /\ c_pc[c] = "put_whitelist"
    /\ r_whitelist' = c_url_whitelist[c]
    /\ c_pc' = [c_pc EXCEPT ![c] = "get_notification"]
    /\ UNCHANGED <<setupRaceFrame, r_notifications, r_next_id, r_definitions,
                   c_event_definitions, c_url_whitelist,
                   c_existing_notification_id, c_new_notification,
                   c_def_index>>

\* lines 595-603
RaceGetNotification(c) ==
    /\ c_pc[c] = "get_notification"
    /\ LET found == NotificationsWithTitle(r_notifications,
                                           RaceNotificationName(c))
       IN IF NotificationExists(Cardinality(found))
          THEN /\ \E n \in found :
                     c_existing_notification_id' =
                         [c_existing_notification_id EXCEPT ![c] = n.id]
               /\ c_pc' = [c_pc EXCEPT ![c] = "delete_notification"]
          ELSE /\ UNCHANGED c_existing_notification_id
               /\ c_pc' = [c_pc EXCEPT ![c] = "create_notification"]
    /\ UNCHANGED <<setupRaceFrame, remoteVars, c_event_definitions,
                   c_url_whitelist, c_new_notification, c_def_index>>

\* lines 604-608
RaceDeleteNotification(c) ==
    /\ c_pc[c] = "delete_notification"
    /\ r_notifications' =
          {n \in r_notifications : n.id # c_existing_notification_id[c]}
    /\ r_definitions' =
          DefinitionsAfterDelete(r_definitions, c_existing_notification_id[c],
                                 r_cascade)
    /\ c_pc' = [c_pc EXCEPT ![c] = "create_notification"]
    /\ UNCHANGED <<setupRaceFrame, r_next_id, r_whitelist,
                   c_event_definitions, c_url_whitelist,
                   c_existing_notification_id, c_new_notification,
                   c_def_index>>

\* the next definition of the loop of context c, or the end of its run
RaceAdvance(c, next) ==
    c_pc' = [c_pc EXCEPT ![c] = IF next > Len(c_event_definitions[c])
                                 THEN "done" ELSE "update_events"]

\* lines 610-635
RaceCreateNotification(c) ==
    /\ c_pc[c] = "create_notification"
    /\ LET body == NotificationBody(RaceNotificationName(c),
                                    RaceKeepApiUrl(c), ApiKey, is_v4)
           created == [id |-> r_next_id, title |-> body.title,
                       description |-> body.description,
                       config |-> body.config]
       IN /\ r_notifications' = r_notifications \cup {created}
          /\ r_next_id' = r_next_id + 1
          /\ c_new_notification' =
                [c_new_notification EXCEPT ![c] = created.id]
    /\ c_def_index' = [c_def_index EXCEPT ![c] = 1]
    /\ RaceAdvance(c, 1)
    /\ UNCHANGED <<setupRaceFrame, r_whitelist, r_definitions,
                   c_event_definitions, c_url_whitelist,
                   c_existing_notification_id>>

\* lines 638-643
RaceSkipEvent(c) ==
    /\ c_pc[c] = "update_events"
    /\ SkipDefinition(is_v4, c_event_definitions[c][c_def_index[c]])
    /\ c_def_index' = [c_def_index EXCEPT ![c] = @ + 1]
    /\ RaceAdvance(c, c_def_index[c] + 1)
    /\ UNCHANGED <<setupRaceFrame, remoteVars, c_event_definitions,
                   c_url_whitelist, c_existing_notification_id,
                   c_new_notification>>

\* lines 645-655: the definition as listed earlier, rebound, replaces the
\* backend's
RaceUpdateEvent(c) ==
    /\ c_pc[c] = "update_events"
    /\ ~SkipDefinition(is_v4, c_event_definitions[c][c_def_index[c]])
    /\ LET event == Rebind(c_event_definitions[c][c_def_index[c]],
                           c_existing_notification_id[c],
                           c_new_notification[c])
       IN /\ c_event_definitions' =
                [c_event_definitions EXCEPT ![c][c_def_index[c]] = event]
          /\ r_definitions' = DefinitionsAfterUpdate(r_definitions, event)
    /\ c_def_index' = [c_def_index EXCEPT ![c] = @ + 1]
    /\ RaceAdvance(c, c_def_index[c] + 1)
    /\ UNCHANGED <<setupRaceFrame, r_notifications, r_next_id, r_whitelist,
                   c_url_whitelist, c_existing_notification_id,
                   c_new_notification>>

NextSetupRace ==
    \E c \in Contexts :
        \/ RaceGetEvents(c)
        \/ RaceGetUrlWhitelist(c)
        \/ RaceUpdateUrlWhitelist(c)
        \/ RaceGetNotification(c)
        \/ RaceDeleteNotification(c)
        \/ RaceCreateNotification(c)
        \/ RaceSkipEvent(c)
        \/ RaceUpdateEvent(c)

InitSetupRace ==
    StartSetupRace /\ IdleHost /\ IdleAlerts /\ IdleMap /\ IdleQuery
        /\ IdleHostRace /\ IdleLate

SpecSetupRace == InitSetupRace /\ [][NextSetupRace]_vars

BothDone == \A c \in Contexts : c_pc[c] = "done"

\* the contexts whose callback URL the whitelist holds
ContextsWhitelisted ==
    {c \in Contexts : Whitelisted(r_whitelist, RaceKeepApiUrl(c))}

\* the contexts whose new notification the i-th definition refers to
ContextsBound(i) ==
    {c \in Contexts :
        c_new_notification[c] \in SeqRange(r_definitions[i].notifications)}

\* C15: both writes replace the whole collection, so of two interleaved runs
\* the last writer wins: when both runs have completed, the whitelist holds
\* the callback URL of at least one of them and every definition that is not
\* exempt refers to the new notification of at least one of them, but not
\* necessarily of both; nothing of what other parties put there is lost.
C15_LastWriterWins ==
    BothDone =>
        /\ ContextsWhitelisted # {}
        /\ r_whitelist[1] = ForeignWhitelistEntry
        /\ \A i \in 1..Len(r_definitions) :
              ~Exempt(r_definitions[i]) =>
                  /\ ContextsBound(i) # {}
                  /\ \A c \in ContextsBound(i) :
                        CountOf(r_definitions[i].notifications,
                                c_new_notification[c]) = 1

\* both runs wrote a whitelist holding their own URL and completed, both
\* updated the same definition, and the backend is left with one of the two
\* URLs and, in that definition, one of the two new ids
C15_Witness ==
    /\ BothDone
    /\ \A c \in Contexts :
          /\ Whitelisted(c_url_whitelist[c], RaceKeepApiUrl(c))
          /\ Len(c_url_whitelist[c]) = 2
    /\ Cardinality(ContextsWhitelisted) = 1
    /\ \E i \in 1..Len(r_definitions) :
          /\ \A c \in Contexts :
                c_new_notification[c]
                    \in SeqRange(c_event_definitions[c][i].notifications)
          /\ Cardinality(ContextsBound(i)) = 1

----------------------------------------------------------------------------
\* Claims about what setup_webhook leaves behind (SpecSetup)

\* the requests of the current run that succeeded
CallsOk == {requests[i].call : i \in {j \in 1..Len(requests) : requests[j].ok}}

LastCall == requests[Len(requests)]

\* C22: the step on which a run aborts changes nothing on the backend and
\* sends nothing but the request that failed; in the aborted state every
\* write the run made is still in effect: the whitelist entry it added, the
\* deletion of the old notification, the notification it created and the
\* definitions it updated; an abort on the create after a delete leaves no
\* notification with the title.
C22_NoRollback ==
    [][pc' = "raised" =>
          /\ pc # "raised" =>
                /\ UNCHANGED remoteVars
                /\ \E call \in {"get_events", "get_whitelist", "put_whitelist",
                                "get_notification", "delete_notification",
                                "create_notification", "update_event"} :
                      requests' = Append(requests,
                                         [call |-> call, ok |-> FALSE])
          /\ pc = "raised" => UNCHANGED <<remoteVars, requests>>
          /\ "put_whitelist" \in CallsOk' =>
                Whitelisted(r_whitelist', keep_api_url)
          /\ "delete_notification" \in CallsOk' =>
                existing_notification_id' \notin LiveIds'
          /\ "create_notification" \in CallsOk' =>
                new_notification' \in LiveIds'
          /\ \A i \in 1..(def_index' - 1) :
                ~Exempt(event_definitions'[i]) =>
                    \E j \in 1..Len(r_definitions') :
                        r_definitions'[j] = event_definitions'[i]
          /\ ("delete_notification" \in CallsOk'
                 /\ LastCall'.call = "create_notification") =>
                TitledNotifications' = {}]_vars

\* a run that deleted the old notification and failed on the create
C22_Witness ==
    /\ pc = "raised"
    /\ "delete_notification" \in CallsOk
    /\ LastCall = [call |-> "create_notification", ok |-> FALSE]
    /\ TitledNotifications = {}

\* C27: after every successful run the URL of each notification with the
\* derived title is the URL the run checked against the whitelist, and the
\* whitelist holds it (on v4 both carry the appended api key).
C27_TargetWhitelisted ==
    pc = "done" =>
        \A n \in TitledNotifications :
            /\ n.config.url = keep_api_url
            /\ Whitelisted(r_whitelist, n.config.url)
            /\ Whitelisted(url_whitelist, n.config.url)

\* a successful run on v4 that had to add its URL to the whitelist
C27_Witness ==
    /\ pc = "done"
    /\ is_v4
    /\ "put_whitelist" \in CallsOk
    /\ \E n \in TitledNotifications :
          /\ n.config.url.api_key = ApiKey
          /\ Whitelisted(r_whitelist, n.config.url)

\* is sent the list old with at most its first reference to stale removed
\* and new appended
ReboundFrom(old, sent, stale, new) ==
    /\ sent # <<>>
    /\ sent[Len(sent)] = new
    /\ LET kept == SubSeq(sent, 1, Len(sent) - 1)
       IN \/ /\ stale \notin SeqRange(old)
             /\ kept = old
          \/ \E k \in 1..Len(old) :
                /\ old[k] = stale
                /\ \A j \in 1..(k - 1) : old[j] # stale
                /\ kept = SubSeq(old, 1, k - 1) \o SubSeq(old, k + 1, Len(old))

\* C28: the list an update sends is the list read during the enumeration
\* with at most one entry (the first equal to the stale id) removed and the
\* new id appended, so every foreign reference is kept in order; a whitelist
\* write keeps every entry the whitelist had, in order.
C28_ForeignReferencesKept ==
    [][/\ (requests' # requests /\ requests' # <<>>
              /\ LastCall'.call = "update_event") =>
              LET old == event_definitions[def_index].notifications
                  sent == event_definitions'[def_index].notifications
              IN /\ ReboundFrom(old, sent, existing_notification_id,
                                new_notification)
                 /\ \A i \in 1..Len(old) :
                       old[i] = ForeignNotification.id =>
                           ForeignNotification.id \in SeqRange(sent)
                 /\ LastCall'.ok =>
                       \E j \in 1..Len(r_definitions') :
                           /\ r_definitions'[j].id =
                                 event_definitions[def_index].id
                           /\ r_definitions'[j].notifications = sent
       /\ r_whitelist' # r_whitelist =>
              /\ Len(r_whitelist') = Len(r_whitelist) + 1
              /\ SubSeq(r_whitelist', 1, Len(r_whitelist)) = r_whitelist]_vars

\* a completed run that removed a stale reference from a definition that
\* also holds a foreign one
C28_Witness ==
    /\ pc = "done"
    /\ existing_notification_id # NoId
    /\ \E i \in 1..Len(event_definitions) :
          /\ ForeignNotification.id \in SeqRange(event_definitions[i].notifications)
          /\ new_notification \in SeqRange(event_definitions[i].notifications)
          /\ existing_notification_id
                \notin SeqRange(event_definitions[i].notifications)

----------------------------------------------------------------------------
\* Claims about failures and single requests (SpecAlerts, SpecQuery)

\* C23: if a page request of _get_alerts does not get a 200, it is the last
\* request of the call, the call raises, and no alerts are returned, whatever
\* the pages before it served.
C23_AlertsAllOrNothing ==
    /\ Len(alert_statuses) = Len(alert_requests)
    /\ \A i \in 1..Len(alert_statuses) :
          ~alert_statuses[i] =>
              /\ i = Len(alert_statuses)
              /\ alerts_pc = "raised"
              /\ alerts_result = <<>>
    /\ alerts_result # <<>> =>
          \A i \in 1..Len(alert_statuses) : alert_statuses[i]

\* a call that had fetched events on earlier pages when a later page failed
C23_Witness ==
    /\ alerts_pc = "raised"
    /\ Len(alert_statuses) >= 3
    /\ ~alert_statuses[Len(alert_statuses)]
    /\ all_alerts # <<>>
    /\ alerts_result = <<>>

SearchDispatched == search_args # <<>> /\ q_pc \in {"returned", "raised"}

\* C26: a search issues exactly one request, to views/search/sync, whose body
\* holds one query with one search type of type messages; when the response
\* is a success it returns the messages of the response as they are, and
\* when it is not it raises and returns nothing.
C26_SearchSingleRequest ==
    /\ search_args # <<>> =>
          \A i \in 1..Len(q_requests) :
              q_requests[i].endpoint = "views/search/sync"
    /\ SearchDispatched =>
          /\ Len(q_requests) = 1
          /\ Len(q_responses) = 1
          /\ Len(q_requests[1].body.queries) = 1
          /\ Len(q_requests[1].body.queries[1].search_types) = 1
          /\ q_requests[1].body.queries[1].search_types[1].type = "messages"
          /\ IF q_responses[1].ok
             THEN /\ q_pc = "returned"
                  /\ q_result = <<q_responses[1].payload>>
             ELSE /\ q_pc = "raised"
                  /\ q_result = <<>>

\* a search that returned the two messages of the response
C26_Witness ==
    /\ SearchDispatched
    /\ q_pc = "returned"
    /\ q_result = <<(<<"message-1", "message-2">>)>>

AlertsDispatched == search_args = <<>> /\ q_pc \in {"returned", "raised"}

\* C29: without a query string _query issues exactly one request, to
\* events/search, with the caller's mapping as body, whatever page or total
\* the mapping or the response names; what it returns is one alert per event
\* of that response, in order.
C29_QueryWithoutQuery ==
    AlertsDispatched =>
        /\ Len(q_requests) = 1
        /\ Len(q_responses) = 1
        /\ q_requests[1] = [endpoint |-> "events/search",
                            body |-> events_search_parameters]
        /\ q_pc = "returned" =>
              /\ q_responses[1].ok
              /\ Len(q_result[1]) = Len(q_responses[1].payload)
              /\ \A i \in 1..Len(q_result[1]) :
                    q_result[1][i].id = q_responses[1].payload[i].event.id
        /\ ~q_responses[1].ok => q_pc = "raised" /\ q_result = <<>>

----------------------------------------------------------------------------
\* Termination of setup_webhook and of _get_alerts: one behaviour invokes one
\* of the two operations, and every request that is pending gets its answer.

\* the backend of setup_webhook is there exactly when that operation is the
\* one invoked
SetupInvoked == r_notifications # {}

\* the steps of a run of setup_webhook once it is entered
SetupStep ==
    \/ \E ok \in BOOLEAN : GetEvents(ok)
    \/ \E ok \in BOOLEAN : GetUrlWhitelist(ok)
    \/ \E ok \in BOOLEAN : UpdateUrlWhitelist(ok)
    \/ \E ok \in BOOLEAN : GetNotification(ok)
    \/ \E ok \in BOOLEAN : DeleteNotification(ok)
    \/ \E ok \in BOOLEAN : CreateNotification(ok)
    \/ SkipEvent
    \/ \E ok \in BOOLEAN : UpdateEvent(ok)

InvokedSetup == SetupInvoked /\ (SetupWebhook \/ SetupStep)

InvokedAlerts == ~SetupInvoked /\ NextAlerts

NextTermination == InvokedSetup \/ InvokedAlerts

InitTermination ==
    /\ \/ StartSetup /\ IdleAlerts
       \/ IdleSetup /\ StartAlerts
    /\ IdleHost /\ IdleMap /\ IdleExt

\* every blocking request returns: a step that is pending is taken
SpecTermination ==
    /\ InitTermination
    /\ [][NextTermination]_vars
    /\ WF_vars(SetupInvoked /\ SetupStep)
    /\ WF_vars(InvokedAlerts)

CallCount(name) ==
    Cardinality({i \in 1..Len(requests) : requests[i].call = name})

\* the requests of a run stay within what the first page's total and the
\* number of collected definitions allow
SetupRequestsBounded ==
    /\ CallCount("get_events")
          <= Max(1, CeilDiv(Len(r_definitions), DefsPerPage))
    /\ CallCount("update_event") <= Len(event_definitions)
    /\ \A name \in {"get_whitelist", "put_whitelist", "get_notification",
                    "delete_notification", "create_notification"} :
          CallCount(name) <= 1

AlertRequestsBounded ==
    Len(alert_requests) <= Max(10, CeilOfThousandths(r_total_events))

SetupRunning == pc \notin {"idle", "done", "raised"}

AlertsRunning == alerts_pc = "paging"

\* C24: an invocation of setup_webhook or of _get_alerts that is under way
\* eventually returns or raises, and at every moment the requests it has
\* issued are within a bound given by the total of the first page and the
\* number of collected definitions.
C24_Termination ==
    /\ [](SetupRequestsBounded /\ AlertRequestsBounded)
    /\ SetupRunning ~> (pc \in {"done", "raised"})
    /\ AlertsRunning ~> (alerts_pc \in {"returned", "raised"})

\* a run of setup_webhook that listed several pages and updated definitions
\* has returned
C24_Witness ==
    /\ pc = "done"
    /\ CallCount("get_events") >= 2
    /\ CallCount("update_event") >= 4

----------------------------------------------------------------------------
\* __init__ and __get_graylog_version
\*
\* A version string is the sequence of its characters.

VersionChars == {" ", "4", "5", "."}

VersionStrings ==
    {<<>>} \cup {<<a>> : a \in VersionChars}
           \cup {<<a, b>> : a \in VersionChars, b \in VersionChars}

\* what the version request may do: raise, or answer with a status and a
\* body whose "version" key is absent (<<>>) or holds a string
VersionResponses ==
    [kind : {"raises", "answers"},
     status : {200, 401, 500},
     version : {<<>>} \cup {<<s>> : s \in VersionStrings}]

RECURSIVE LStrip(_)
LStrip(s) == IF s # <<>> /\ Head(s) = " " THEN LStrip(Tail(s)) ELSE s

RECURSIVE RStrip(_)
RStrip(s) ==
    IF s # <<>> /\ s[Len(s)] = " " THEN RStrip(SubSeq(s, 1, Len(s) - 1)) ELSE s

\* str.strip()
Strip(s) == RStrip(LStrip(s))

\* str.startswith(prefix) for a prefix of one character
StartsWith(s, prefix) == s # <<>> /\ s[1] = prefix

\* variant: a probe that fails is taken for a 4.x backend
DetectedVersion_AssumesV4(response) ==
    IF response.kind = "answers" /\ response.status = 200
           /\ response.version # <<>>
    THEN <<Strip(response.version[1])>>
    ELSE <<(<<"4">>)>>

\* __get_graylog_version: the stripped version, or None when the request
\* raises, the status is not 200 or the body has no version
DetectedVersion(response) ==
    IF response.kind = "answers" /\ response.status = 200
           /\ response.version # <<>>
    THEN <<Strip(response.version[1])>>
    ELSE <<>>

StartInit ==
    /\ v_pc = "idle"
    /\ v_response \in VersionResponses
    /\ v_version = <<>>
    /\ v_instance = <<>>

initFrame == <<setupVars, hostVars, alertVars, mapVars, queryVars,
               hostRaceVars, setupRaceVars, scopeVars, v_response>>

\* the call of __get_graylog_version by the constructor
GetGraylogVersion ==
    /\ v_pc = "idle"
    /\ v_version' = DetectedVersion(v_response)
    /\ v_pc' = "detected"
    /\ UNCHANGED <<initFrame, v_instance>>

\* self.is_v4 = <version>.startswith("4"): None has no startswith
Construct ==
    /\ v_pc = "detected"
    /\ IF v_version = <<>>
       THEN /\ v_pc' = "error"
            /\ UNCHANGED v_instance
       ELSE /\ v_pc' = "constructed"
            /\ v_instance' = <<[is_v4 |-> StartsWith(v_version[1], "4")]>>
    /\ UNCHANGED <<initFrame, v_version>>

NextInit == GetGraylogVersion \/ Construct

InitInit ==
    StartInit /\ IdleSetup /\ IdleHost /\ IdleAlerts /\ IdleMap /\ IdleQuery
        /\ IdleHostRace /\ IdleSetupRace /\ IdleScopes

SpecInit == InitInit /\ [][NextInit]_vars

VersionProbeFailed == v_response.kind = "raises" \/ v_response.status # 200

\* C21: when the version request raises or answers with a status other than
\* 200, the detection returns no value without raising, and the construction
\* that evaluates the flag against it ends in the error: there is no
\* instance, and so none whose is_v4 flag is true.
C21_VersionProbeFailure ==
    VersionProbeFailed =>
        /\ v_pc # "idle" => v_version = <<>>
        /\ v_pc \notin {"idle", "detected"} => v_pc = "error"
        /\ v_instance # <<>> => ~v_instance[1].is_v4

\* a version request answered with a 500 whose body names a 4.x version: the
\* construction ended in the error
C21_Witness ==
    /\ v_response.kind = "answers"
    /\ v_response.status = 500
    /\ v_response.version = <<(<<"4", ".">>)>>
    /\ v_pc = "error"
    /\ v_instance = <<>>

----------------------------------------------------------------------------
\* validate_scopes
\*
\* A value that is a bool or a string is a record with the one that it is.

PyBool(b) == [bool |-> <<b>>, text |-> <<>>]

PyStr(s) == [bool |-> <<>>, text |-> <<s>>]

Roles == {"Admin", "Reader", "Views Manager"}

\* what the user lookup may do: raise, or answer with a status, a text and a
\* body whose "roles" key is absent (<<>>) or holds a list of roles
ScopeResponses ==
    [kind : {"raises", "answers"},
     status : {200, 401, 404},
     text : {"", "unauthorized"},
     roles : {<<>>} \cup {<<r>> : r \in SUBSET Roles}]

\* variant: any role will do
HasRequiredRole_AnyRole(roles) == roles # {}

\* required_role in user_response["roles"]
HasRequiredRole(roles) == "Admin" \in roles

\* str(e) of the exception the try block raised
ScopeErrorText(response) ==
    IF response.kind = "raises" THEN "connection refused"
    ELSE IF response.status # 200 THEN response.text
    ELSE "'roles'"

\* the dict validate_scopes returns
ScopesResult(response) ==
    IF response.kind = "answers" /\ response.status = 200
           /\ response.roles # <<>>
    THEN [authenticated |-> PyBool(TRUE),
          authorized |-> IF HasRequiredRole(response.roles[1])
                         THEN PyBool(TRUE)
                         ELSE PyStr("Missing admin Privileges")]
    ELSE [authenticated |-> PyStr(ScopeErrorText(response)),
          authorized |-> PyBool(FALSE)]

StartScopes ==
    /\ s_pc = "idle"
    /\ s_response \in ScopeResponses
    /\ s_result = <<>>

\* validate_scopes, whole
ValidateScopes ==
    /\ s_pc = "idle"
    /\ s_result' = <<ScopesResult(s_response)>>
    /\ s_pc' = "returned"
    /\ UNCHANGED <<setupVars, hostVars, alertVars, mapVars, queryVars,
                   hostRaceVars, setupRaceVars, initVars, s_response>>

NextScopes == ValidateScopes

InitScopes ==
    StartScopes /\ IdleSetup /\ IdleHost /\ IdleAlerts /\ IdleMap /\ IdleQuery
        /\ IdleHostRace /\ IdleSetupRace /\ IdleInit

SpecScopes == InitScopes /\ [][NextScopes]_vars

LookupAnswered ==
    /\ s_response.kind = "answers"
    /\ s_response.status = 200
    /\ s_response.roles # <<>>

\* C25: validate_scopes returns, and what it returns is authenticated true
\* and authorized true when the lookup answered 200 with roles holding
\* 'Admin', authenticated true and authorized a missing-privileges message
\* when it answered 200 with roles not holding it, and authenticated the
\* error text and authorized false when the lookup raised, answered another
\* status or could not be read.
C25_ValidateScopes ==
    s_pc # "idle" =>
        /\ s_pc = "returned"
        /\ s_result # <<>>
        /\ LET result == s_result[1]
           IN IF LookupAnswered /\ "Admin" \in s_response.roles[1]
              THEN /\ result.authenticated = PyBool(TRUE)
                   /\ result.authorized = PyBool(TRUE)
              ELSE IF LookupAnswered
              THEN /\ result.authenticated = PyBool(TRUE)
                   /\ result.authorized.bool = <<>>
                   /\ result.authorized.text # <<>>
              ELSE /\ result.authenticated.bool = <<>>
                   /\ result.authenticated.text # <<>>
                   /\ result.authorized = PyBool(FALSE)
                   /\ (s_response.kind = "answers" /\ s_response.status # 200)
                         => result.authenticated = PyStr(s_response.text)

\* a lookup answered 200 for a user who has roles, none of them Admin
C25_Witness ==
    /\ s_pc = "returned"
    /\ LookupAnswered
    /\ s_response.roles[1] = {"Reader", "Views Manager"}
    /\ s_result[1].authenticated = PyBool(TRUE)
    /\ s_result[1].authorized = PyStr("Missing admin Privileges")

====
